---- MODULE Spec2Model ----
(***************************************************************************)
(* Model of lofi_rs (src/src/main.rs, src/src/ui.rs), unix build: the      *)
(* playback-session controller of a terminal internet-radio player.        *)
(*                                                                         *)
(* The program state is the VolumeControl record, the station index, the   *)
(* current child handle, the UI snapshot and the position of main().  The  *)
(* environment state is the number of player processes spawned so far,    *)
(* which of them still run, which were sent a kill, the state of the       *)
(* current player (the url it plays, its volume, paused or not) and, for   *)
(* the afplay backend, the macOS system output volume that apply_volume    *)
(* sets through osascript.                                                 *)
(*                                                                         *)
(* One action models one arm of the tokio::select! loop, whole.  Outcomes  *)
(* the code cannot control (socket connect, socket write, osascript, the   *)
(* old process exiting inside the 500 ms wait, spawn) are inputs drawn     *)
(* with \E.  A player process is one unit: the sh -c "curl | afplay"       *)
(* pipeline is not split into its members.  The exit of the current        *)
(* process and the child.wait() arm that observes it are one step.         *)
(***************************************************************************)
EXTENDS Integers, Sequences, FiniteSets, TLC

\* Bounds of the model.
MaxSpawns == 4
MaxTicks == 1
\* Key events per run during which the environment fails: a socket connect or
\* write fails, osascript fails, or the killed process outlives the 500 ms wait.
MaxFaults == 1

\* Program constants.
NumStations == 2
DefaultVolume == 70
VolumeStep == 5
MaxVolume == 100

NoSocket == "none"
NoVol == -1
NoPlayer == "None"
\* System output volume found at startup (set by the user, not by the program).
InitSysVolumes == {100}

VARIABLES
  pc,              \* position of main(): "detect", "start", "loop", "ctrlc", "done"
  result,          \* what main() returned: "none" (still running), "ok" for Ok(()),
                   \* or the Err: "no_player", "spawn_err", "io_err"
  raw_mode,        \* terminal raw mode enabled
  volume_control,  \* the VolumeControl struct
  station_index,
  stream_url,      \* index of the station whose url stream_url holds
  child,           \* the process the child handle owns (its spawn number; 0: none)
  spawns,          \* number of processes spawned so far
  running,         \* the spawned processes that have not exited
  killed,          \* the spawned processes that were sent a kill
  player,          \* the current player process: url, volume, paused
  sys_volume,      \* macOS system output volume
  faults,          \* key events hit by an environment failure so far
  lock_io,         \* the process I/O the last key handler began while it held the
                   \* volume_control lock: "none", "ipc", "signal", "command"
  ui_state         \* the UiState snapshot

vars == <<pc, result, raw_mode, volume_control, station_index, stream_url,
          child, spawns, running, killed, player, sys_volume, faults, lock_io,
          ui_state>>

Min(a, b) == IF a < b THEN a ELSE b

----------------------------------------------------------------------------
(* VolumeControl *)

VolumeControl_new(player_type) ==
  [volume |-> DefaultVolume, player_type |-> player_type, mpv_socket |-> NoSocket,
   muted |-> FALSE, volume_before_mute |-> DefaultVolume]

\* increase_volume without the upper clamp.
increase_volume_unclamped(vc) == [vc EXCEPT !.volume = vc.volume + VolumeStep]

increase_volume(vc) == [vc EXCEPT !.volume = Min(vc.volume + VolumeStep, MaxVolume)]

\* u32::saturating_sub
decrease_volume(vc) ==
  [vc EXCEPT !.volume = IF vc.volume < VolumeStep THEN 0 ELSE vc.volume - VolumeStep]

\* toggle_mute that unmutes to the default volume instead of the stored one.
toggle_mute_to_default(vc) ==
  IF vc.muted
  THEN [vc EXCEPT !.volume = DefaultVolume, !.muted = FALSE]
  ELSE [vc EXCEPT !.volume_before_mute = vc.volume, !.volume = 0, !.muted = TRUE]

\* toggle_mute that leaves the volume as it is when it mutes.
toggle_mute_keeps_volume(vc) ==
  IF vc.muted
  THEN [vc EXCEPT !.volume = vc.volume_before_mute, !.muted = FALSE]
  ELSE [vc EXCEPT !.volume_before_mute = vc.volume, !.muted = TRUE]

\* toggle_mute that also clears the snapshot when it unmutes.
toggle_mute_clears_snapshot(vc) ==
  IF vc.muted
  THEN [vc EXCEPT !.volume = vc.volume_before_mute, !.muted = FALSE,
                  !.volume_before_mute = 0]
  ELSE [vc EXCEPT !.volume_before_mute = vc.volume, !.volume = 0, !.muted = TRUE]

\* toggle_mute that takes the snapshot after it has set the volume to 0.
toggle_mute_snapshot_late(vc) ==
  IF vc.muted
  THEN [vc EXCEPT !.volume = vc.volume_before_mute, !.muted = FALSE]
  ELSE [vc EXCEPT !.volume_before_mute = 0, !.volume = 0, !.muted = TRUE]

toggle_mute(vc) ==
  IF vc.muted
  THEN [vc EXCEPT !.volume = vc.volume_before_mute, !.muted = FALSE]
  ELSE [vc EXCEPT !.volume_before_mute = vc.volume, !.volume = 0, !.muted = TRUE]

\* apply_volume that reports success on every backend, changing nothing.
apply_volume_in_place(vc, pl, sys, connect, write, osa) ==
  [err |-> FALSE, pl |-> pl, sys |-> sys]

\* apply_volume: err is whether it returned Err; pl and sys are the player's
\* run-time state and the system volume afterwards.  connect/write/osa are the
\* outcomes of UnixStream::connect, write_all and the osascript command.
apply_volume(vc, pl, sys, connect, write, osa) ==
  CASE vc.player_type = "Mpv" ->
         IF vc.mpv_socket # NoSocket
         THEN IF connect
              THEN IF write THEN [err |-> FALSE, pl |-> [pl EXCEPT !.vol = vc.volume], sys |-> sys]
                            ELSE [err |-> TRUE, pl |-> pl, sys |-> sys]
              ELSE [err |-> FALSE, pl |-> pl, sys |-> sys]
         ELSE [err |-> TRUE, pl |-> pl, sys |-> sys]
    [] vc.player_type = "Ffplay" -> [err |-> TRUE, pl |-> pl, sys |-> sys]
    [] OTHER ->
         [err |-> FALSE, pl |-> pl, sys |-> IF osa THEN vc.volume ELSE sys]

\* apply_mute that reports success without pausing or signalling anything.
apply_mute_nothing(vc, pl, sys, connect1, write1, connect, write, osa) ==
  [err |-> FALSE, pl |-> pl, sys |-> sys]

\* apply_mute: connect1/write1 are the outcomes of its own connect and write;
\* the rest is handed to apply_volume when it falls back to it.  child.id() is
\* Some for every child the loop still owns, so the afplay arm always signals.
apply_mute(vc, pl, sys, connect1, write1, connect, write, osa) ==
  CASE vc.player_type = "Mpv" ->
         IF vc.mpv_socket # NoSocket /\ connect1
         THEN IF write1 THEN [err |-> FALSE, pl |-> [pl EXCEPT !.paused = vc.muted], sys |-> sys]
                        ELSE [err |-> TRUE, pl |-> pl, sys |-> sys]
         ELSE apply_volume(vc, pl, sys, connect, write, osa)
    [] vc.player_type = "Ffplay" -> apply_volume(vc, pl, sys, connect, write, osa)
    [] OTHER -> [err |-> FALSE, pl |-> [pl EXCEPT !.paused = vc.muted], sys |-> sys]

\* The outcomes of the I/O calls apply_volume makes, per backend (a call a
\* backend never makes is fixed to TRUE; write is made only after a connect
\* that succeeded).
VolumeIo(player_type) ==
  CASE player_type = "Mpv" ->
         {[connect |-> FALSE, write |-> TRUE, osa |-> TRUE],
          [connect |-> TRUE, write |-> FALSE, osa |-> TRUE],
          [connect |-> TRUE, write |-> TRUE, osa |-> TRUE]}
    [] player_type = "Ffplay" -> {[connect |-> TRUE, write |-> TRUE, osa |-> TRUE]}
    [] OTHER -> {[connect |-> TRUE, write |-> TRUE, osa |-> b] : b \in BOOLEAN}

\* The outcomes of the I/O calls apply_mute makes, per backend: its own
\* connect and write, and those of apply_volume where it falls back to it.
MuteIo(player_type) ==
  CASE player_type = "Mpv" ->
         {[connect1 |-> FALSE, write1 |-> TRUE, connect |-> io.connect, write |-> io.write,
           osa |-> TRUE] : io \in VolumeIo("Mpv")}
         \cup {[connect1 |-> TRUE, write1 |-> b, connect |-> TRUE, write |-> TRUE,
                osa |-> TRUE] : b \in BOOLEAN}
    [] OTHER -> {[connect1 |-> TRUE, write1 |-> TRUE, connect |-> TRUE, write |-> TRUE,
                  osa |-> TRUE]}

\* Whether an outcome holds a failed call.
VolumeFault(io) == ~(io.connect /\ io.write /\ io.osa)
MuteFault(io) == ~(io.connect1 /\ io.write1) \/ VolumeFault(io)

\* The process I/O apply_volume begins.  Its caller holds the MutexGuard of
\* volume_control across the call (let vol = lock().await; vol.apply_volume(..)
\* .await; drop(vol)): the write on the IPC socket after a connect that
\* succeeded, or the osascript command.
VolumeLockIo(vc, connect) ==
  CASE vc.player_type = "Mpv" ->
         IF vc.mpv_socket # NoSocket /\ connect THEN "ipc" ELSE "none"
    [] vc.player_type = "Ffplay" -> "none"
    [] OTHER -> "command"

\* The process I/O apply_mute begins, its caller holding the lock likewise:
\* the IPC write, the SIGSTOP / SIGCONT signal, or what apply_volume begins.
MuteLockIo(vc, connect1, connect) ==
  CASE vc.player_type = "Mpv" ->
         IF vc.mpv_socket # NoSocket /\ connect1 THEN "ipc" ELSE VolumeLockIo(vc, connect)
    [] vc.player_type = "Ffplay" -> VolumeLockIo(vc, connect)
    [] OTHER -> "signal"

\* The fault count after a key event, given whether the environment failed in it.
Count(failed) == IF failed THEN faults + 1 ELSE faults

----------------------------------------------------------------------------
(* Launch commands and processes *)

\* The socket path is derived from this program's own pid, the same on every call.
SocketPath == "mpv_lofi_pid.sock"

\* build_player_args that always encodes the default volume.
build_player_args_default(player_type, url, volume) ==
  CASE player_type = "Ffplay" -> [cmd |-> "ffplay", url |-> url, vol |-> DefaultVolume, socket |-> NoSocket]
    [] player_type = "Mpv" -> [cmd |-> "mpv", url |-> url, vol |-> DefaultVolume, socket |-> SocketPath]
    [] OTHER -> [cmd |-> "sh", url |-> url, vol |-> NoVol, socket |-> NoSocket]

\* build_player_args: url and vol are what the command line encodes (NoVol when
\* it encodes no volume), socket the IPC path returned to the caller.
build_player_args(player_type, url, volume) ==
  CASE player_type = "Ffplay" -> [cmd |-> "ffplay", url |-> url, vol |-> volume, socket |-> NoSocket]
    [] player_type = "Mpv" -> [cmd |-> "mpv", url |-> url, vol |-> volume, socket |-> SocketPath]
    [] OTHER -> [cmd |-> "sh", url |-> url, vol |-> NoVol, socket |-> NoSocket]

\* The state a freshly launched player starts in: it plays the url of its
\* command line at the volume of its command line, not paused.
FreshPlayer(args) == [url |-> args.url, vol |-> args.vol, paused |-> FALSE]

\* Detection that takes ffplay for granted when every probe failed.
DetectPlayer_assumes_ffplay(ffplay_ok, mpv_ok, afplay_ok) ==
  IF ffplay_ok THEN "Ffplay"
  ELSE IF mpv_ok THEN "Mpv"
  ELSE IF afplay_ok THEN "Afplay"
  ELSE "Ffplay"

\* Player detection at startup, in the order the code probes.
DetectPlayer(ffplay_ok, mpv_ok, afplay_ok) ==
  IF ffplay_ok THEN "Ffplay"
  ELSE IF mpv_ok THEN "Mpv"
  ELSE IF afplay_ok THEN "Afplay"
  ELSE NoPlayer

\* The locals of main() before they are initialised and after it returned.
NoVolumeControl == VolumeControl_new(NoPlayer)
NoUi == [station_index |-> 0, volume |-> DefaultVolume, muted |-> FALSE, elapsed |-> 0]
\* No current player process.
NoPlayerState == [url |-> 0, vol |-> NoVol, paused |-> FALSE]

----------------------------------------------------------------------------
(* Pieces shared by the key handlers (the code repeats them in every arm) *)

\* child.start_kill() followed by timeout(500 ms, child.wait()): the kill is
\* sent to the process the handle owns; the process is gone afterwards if it
\* exited in time.
KillAndWait(in_time) ==
  /\ killed' = killed \cup {child}
  /\ running' = IF in_time THEN running \ {child} ELSE running

\* The outcomes of the bounded wait (TRUE: the process exited in time) that
\* the fault bound still allows, given whether this key event failed already.
WaitOutcomes(failed) == IF failed \/ faults < MaxFaults THEN BOOLEAN ELSE {TRUE}

\* A kill-and-respawn that spawns the new process but keeps the old handle.
Respawn_keeps_handle(vc, url, vol, in_time) ==
  LET args == build_player_args(vc.player_type, url, vol)
  IN [running |-> (IF in_time THEN running \ {child} ELSE running) \cup {spawns + 1},
      killed  |-> killed \cup {child},
      child   |-> child,
      player  |-> FreshPlayer(args),
      vc      |-> IF args.socket # NoSocket THEN [vc EXCEPT !.mpv_socket = args.socket] ELSE vc]

\* A kill-and-respawn that clears the muted flag of the session.
Respawn_clears_muted(vc, url, vol, in_time) ==
  LET args == build_player_args(vc.player_type, url, vol)
      unmuted == [vc EXCEPT !.muted = FALSE]
  IN [running |-> (IF in_time THEN running \ {child} ELSE running) \cup {spawns + 1},
      killed  |-> killed \cup {child},
      child   |-> spawns + 1,
      player  |-> FreshPlayer(args),
      vc      |-> IF args.socket # NoSocket THEN [unmuted EXCEPT !.mpv_socket = args.socket]
                                            ELSE unmuted]

\* The kill-and-respawn sequence when the spawn succeeds: the old process is
\* killed and waited for up to 500 ms, the socket of the new command line is
\* recorded, and the child handle is replaced by the new process.
Respawn(vc, url, vol, in_time) ==
  LET args == build_player_args(vc.player_type, url, vol)
  IN [running |-> (IF in_time THEN running \ {child} ELSE running) \cup {spawns + 1},
      killed  |-> killed \cup {child},
      child   |-> spawns + 1,
      player  |-> FreshPlayer(args),
      vc      |-> IF args.socket # NoSocket THEN [vc EXCEPT !.mpv_socket = args.socket] ELSE vc]

\* main() returns res: its locals (the VolumeControl, the station, the child
\* handle, the UI snapshot) are dropped; the processes it spawned stay as they are.
Return(res) ==
  /\ pc' = "done"
  /\ result' = res
  /\ volume_control' = NoVolumeControl
  /\ station_index' = 0
  /\ stream_url' = 0
  /\ child' = 0
  /\ ui_state' = NoUi
  /\ player' = NoPlayerState
  /\ lock_io' = "none"

\* A failed respawn after which the loop carries on with the old child handle.
SpawnFailed_continues(in_time) ==
  /\ KillAndWait(in_time)
  /\ UNCHANGED <<pc, result, raw_mode, spawns, volume_control, station_index,
                 stream_url, child, ui_state, player, lock_io>>

\* The same sequence when spawn() fails: the ? operator returns Err from main()
\* at once, after the kill.
SpawnFailed(in_time) ==
  /\ KillAndWait(in_time)
  /\ Return("spawn_err")
  /\ UNCHANGED <<raw_mode, spawns>>

\* The state after a successful kill-and-respawn r.
Respawned(r) ==
  /\ running' = r.running
  /\ killed' = r.killed
  /\ child' = r.child
  /\ spawns' = r.child
  /\ UNCHANGED <<pc, result, raw_mode>>

\* A snapshot update that copies the volume but not the muted flag.
UiVolume_without_muted(ui, vc) == [ui EXCEPT !.volume = vc.volume]

\* ui_state.volume = vol.volume; ui_state.muted = vol.muted
UiVolume(ui, vc) == [ui EXCEPT !.volume = vc.volume, !.muted = vc.muted]

\* The outcomes of a call that fails only when the environment does, within
\* the failure budget of the run.
IoOutcomes == IF faults < MaxFaults THEN BOOLEAN ELSE {TRUE}

\* The code after the loop: terminal.clear()?; disable_raw_mode()?; Ok(()).
\* restored is whether both calls succeeded; if one fails, its ? returns the
\* error with raw mode still on.
Finish(restored) ==
  IF restored
  THEN Return("ok") /\ raw_mode' = FALSE
  ELSE Return("io_err") /\ UNCHANGED raw_mode

\* The volume-up adjustment without the muted test.
AdjustUp_unguarded(vc) == increase_volume(vc)

\* if !vol.muted { vol.increase_volume(); }
AdjustUp(vc) == IF ~vc.muted THEN increase_volume(vc) ELSE vc

\* if !vol.muted { vol.decrease_volume(); }
AdjustDown(vc) == IF ~vc.muted THEN decrease_volume(vc) ELSE vc

\* The volume-up and volume-down arms after the adjustment: apply_volume, and
\* kill-and-respawn at the adjusted volume when it returned Err.
VolumeKey(vc) ==
  \E io \in VolumeIo(vc.player_type) :
    LET av == apply_volume(vc, player, sys_volume, io.connect, io.write, io.osa)
        f  == VolumeFault(io)
    IN /\ Count(f) <= MaxFaults
       /\ sys_volume' = av.sys
       /\ IF av.err
          THEN /\ spawns < MaxSpawns
               /\ \E in_time \in WaitOutcomes(f), spawn_ok \in BOOLEAN :
                    /\ faults' = Count(f \/ ~in_time)
                    /\ IF spawn_ok
                       THEN LET r == Respawn(vc, stream_url, vc.volume, in_time)
                            IN /\ Respawned(r)
                               /\ player' = r.player
                               /\ volume_control' = r.vc
                               /\ ui_state' = UiVolume(ui_state, r.vc)
                               /\ lock_io' = VolumeLockIo(vc, io.connect)
                               /\ UNCHANGED <<station_index, stream_url>>
                       ELSE SpawnFailed(in_time)
          ELSE /\ volume_control' = vc
               /\ faults' = Count(f)
               /\ player' = av.pl
               /\ ui_state' = UiVolume(ui_state, vc)
               /\ lock_io' = VolumeLockIo(vc, io.connect)
               /\ UNCHANGED <<pc, result, raw_mode, station_index, stream_url, child,
                              spawns, running, killed>>

\* station_index = if station_index == 0 { STATIONS.len() - 1 } else { station_index - 1 }
prev_index(i) == IF i = 0 THEN NumStations - 1 ELSE i - 1

\* The next-station index without the wrap-around.
next_index_nowrap(i) == i + 1

\* station_index = (station_index + 1) % STATIONS.len()
next_index(i) == (i + 1) % NumStations

\* The previous-station and next-station arms after the index was computed:
\* kill-and-respawn on the new url at the stored volume, then mute re-applied
\* to the new process when the session was muted.
StationKey(idx) ==
  \E in_time \in WaitOutcomes(FALSE), spawn_ok \in BOOLEAN :
    LET vc == volume_control
    IN /\ spawns < MaxSpawns
       /\ IF spawn_ok
          THEN LET r == Respawn(vc, idx, vc.volume, in_time)
               IN /\ Respawned(r)
                  /\ station_index' = idx
                  /\ stream_url' = idx
                  /\ ui_state' = [ui_state EXCEPT !.station_index = idx]
                  /\ IF vc.muted
                     THEN \E io \in MuteIo(vc.player_type) :
                            LET vm == [r.vc EXCEPT !.muted = TRUE]
                                am == apply_mute(vm, r.player, sys_volume, io.connect1,
                                                 io.write1, io.connect, io.write, io.osa)
                            IN /\ Count(MuteFault(io) \/ ~in_time) <= MaxFaults
                               /\ faults' = Count(MuteFault(io) \/ ~in_time)
                               /\ volume_control' = vm
                               /\ player' = am.pl
                               /\ sys_volume' = am.sys
                               /\ lock_io' = MuteLockIo(vm, io.connect1, io.connect)
                     ELSE /\ volume_control' = r.vc
                          /\ player' = r.player
                          /\ faults' = Count(~in_time)
                          /\ lock_io' = "none"
                          /\ UNCHANGED sys_volume
          ELSE /\ SpawnFailed(in_time)
               /\ faults' = Count(~in_time)
               /\ UNCHANGED sys_volume

----------------------------------------------------------------------------
(* Startup *)

Init ==
  /\ pc = "detect"
  /\ result = "none"
  /\ raw_mode = FALSE
  /\ volume_control = NoVolumeControl
  /\ station_index = 0
  /\ stream_url = 0
  /\ child = 0
  /\ spawns = 0
  /\ running = {}
  /\ killed = {}
  /\ player = NoPlayerState
  /\ sys_volume \in InitSysVolumes
  /\ faults = 0
  /\ lock_io = "none"
  /\ ui_state = NoUi

\* Player detection, VolumeControl::new and the first build_player_args.
Detect ==
  /\ pc = "detect"
  /\ \E ffplay_ok, mpv_ok, afplay_ok \in BOOLEAN :
       LET pt == DetectPlayer(ffplay_ok, mpv_ok, afplay_ok)
           vc == VolumeControl_new(pt)
           args == build_player_args(pt, stream_url, vc.volume)
       IN IF pt = NoPlayer
          THEN Return("no_player")
          ELSE /\ pc' = "start"
               /\ volume_control' =
                    IF args.socket # NoSocket THEN [vc EXCEPT !.mpv_socket = args.socket] ELSE vc
               /\ UNCHANGED <<result, station_index, stream_url, child, ui_state, player,
                              lock_io>>
  /\ UNCHANGED <<raw_mode, spawns, running, killed, sys_volume, faults>>

\* How far the code between detection and the loop gets: each of
\* enable_raw_mode()?, Terminal::new()? / terminal.clear()?, spawn()? and
\* signal()? returns its error from main() at once.
StartOutcomes == {"raw_err", "term_err", "spawn_err", "signal_err", "ok"}

\* enable_raw_mode, the terminal, the first spawn, the initial renders and the
\* interrupt-signal stream.
Start ==
  /\ pc = "start"
  /\ \E outcome \in StartOutcomes :
       LET args == build_player_args(volume_control.player_type, stream_url,
                                     volume_control.volume)
       IN /\ raw_mode' = (outcome # "raw_err")
          /\ faults' = Count(outcome # "ok")
          /\ IF outcome \in {"signal_err", "ok"}
             THEN /\ spawns' = 1
                  /\ running' = {1}
             ELSE UNCHANGED <<spawns, running>>
          /\ IF outcome = "ok"
             THEN /\ child' = 1
                  /\ player' = FreshPlayer(args)
                  /\ ui_state' = UiVolume(ui_state, volume_control)
                  /\ pc' = "loop"
                  /\ UNCHANGED <<result, volume_control, station_index, stream_url, lock_io>>
             ELSE Return(IF outcome = "spawn_err" THEN "spawn_err" ELSE "io_err")
  /\ UNCHANGED <<killed, sys_volume>>

----------------------------------------------------------------------------
(* The event loop: one action per select! arm and per key *)

\* F11 / Up
VolumeUp ==
  /\ pc = "loop"
  /\ VolumeKey(AdjustUp(volume_control))

\* F10 / Down
VolumeDown ==
  /\ pc = "loop"
  /\ VolumeKey(AdjustDown(volume_control))

\* F7 / Left
PrevStation ==
  /\ pc = "loop"
  /\ StationKey(prev_index(station_index))

\* F9 / Right
NextStation ==
  /\ pc = "loop"
  /\ StationKey(next_index(station_index))

\* F8: toggle, apply_mute, kill-and-respawn at the target volume when it returned Err.
MuteF8 ==
  /\ pc = "loop"
  /\ \E io \in MuteIo(volume_control.player_type) :
       LET vc == toggle_mute(volume_control)
           am == apply_mute(vc, player, sys_volume, io.connect1, io.write1,
                            io.connect, io.write, io.osa)
           f  == MuteFault(io)
       IN /\ Count(f) <= MaxFaults
          /\ sys_volume' = am.sys
          /\ IF am.err
             THEN /\ spawns < MaxSpawns
                  /\ \E in_time \in WaitOutcomes(f), spawn_ok \in BOOLEAN :
                       /\ faults' = Count(f \/ ~in_time)
                       /\ IF spawn_ok
                          THEN LET r == Respawn(vc, stream_url, vc.volume, in_time)
                               IN /\ Respawned(r)
                                  /\ player' = r.player
                                  /\ volume_control' = r.vc
                                  /\ ui_state' = UiVolume(ui_state, r.vc)
                                  /\ lock_io' = MuteLockIo(vc, io.connect1, io.connect)
                                  /\ UNCHANGED <<station_index, stream_url>>
                          ELSE SpawnFailed(in_time)
             ELSE /\ volume_control' = vc
                  /\ faults' = Count(f)
                  /\ player' = am.pl
                  /\ ui_state' = UiVolume(ui_state, vc)
                  /\ lock_io' = MuteLockIo(vc, io.connect1, io.connect)
                  /\ UNCHANGED <<pc, result, raw_mode, station_index, stream_url, child,
                                 spawns, running, killed>>

\* F12 / m / M: toggle, then always kill-and-respawn at the target volume.
MuteF12 ==
  /\ pc = "loop"
  /\ spawns < MaxSpawns
  /\ \E in_time \in WaitOutcomes(FALSE), spawn_ok \in BOOLEAN :
       LET vc == toggle_mute(volume_control)
       IN /\ faults' = Count(~in_time)
          /\ IF spawn_ok
             THEN LET r == Respawn(vc, stream_url, vc.volume, in_time)
                  IN /\ Respawned(r)
                     /\ player' = r.player
                     /\ volume_control' = r.vc
                     /\ ui_state' = UiVolume(ui_state, r.vc)
                     /\ lock_io' = "none"
                     /\ UNCHANGED <<station_index, stream_url>>
             ELSE SpawnFailed(in_time)
  /\ UNCHANGED sys_volume

\* A quit key that waits for the exit of the child without a bound.
Quit_unbounded ==
  /\ pc = "loop"
  /\ killed' = killed \cup {child}
  /\ pc' = "ctrlc"
  /\ volume_control' = NoVolumeControl
  /\ station_index' = 0
  /\ stream_url' = 0
  /\ ui_state' = NoUi
  /\ player' = NoPlayerState
  /\ lock_io' = "none"
  /\ UNCHANGED <<result, raw_mode, child, faults, spawns, running, sys_volume>>

\* q / Q / Ctrl+c key: start_kill, bounded wait, break.
Quit ==
  /\ pc = "loop"
  /\ \E in_time \in WaitOutcomes(FALSE), restored \in IoOutcomes :
       /\ KillAndWait(in_time)
       /\ faults' = Count(~in_time \/ ~restored)
       /\ Finish(restored)
  /\ UNCHANGED <<spawns, sys_volume>>

\* The interrupt signal: child.kill().await, which sends the kill and then
\* waits for the exit without a bound (kill_ok), or returns the OS error of
\* the wait at once, which the arm discards before it breaks.  Nothing but
\* the child handle is read again after this point.
Interrupt ==
  /\ pc = "loop"
  /\ killed' = killed \cup {child}
  /\ \E kill_ok \in IoOutcomes :
       IF kill_ok
       THEN /\ pc' = "ctrlc"
            /\ volume_control' = NoVolumeControl
            /\ station_index' = 0
            /\ stream_url' = 0
            /\ ui_state' = NoUi
            /\ player' = NoPlayerState
            /\ lock_io' = "none"
            /\ UNCHANGED <<result, raw_mode, child, faults>>
       ELSE /\ Finish(TRUE)
            /\ faults' = faults + 1
  /\ UNCHANGED <<spawns, running, sys_volume>>

\* child.kill().await returns once the process has exited; then break.
InterruptDone ==
  /\ pc = "ctrlc"
  /\ child \notin running
  /\ \E restored \in IoOutcomes :
       /\ Finish(restored)
       /\ faults' = Count(~restored)
  /\ UNCHANGED <<spawns, running, killed, sys_volume>>

\* The child.wait() arm: the current process exits, or the wait fails (which
\* the code handles the same way but for the message); break.
ChildWait ==
  /\ pc = "loop"
  /\ \E wait_err \in BOOLEAN, restored \in IoOutcomes :
       /\ running' = IF wait_err THEN running ELSE running \ {child}
       /\ Finish(restored)
       /\ faults' = Count(~restored)
  /\ UNCHANGED <<spawns, killed, sys_volume>>

\* The keyboard arm when no key is pressed: the blocking poll returns None
\* after its 100 ms timeout, the arm's body does nothing, and the loop enters
\* select! again, with a new one-second sleep.
KeyPoll ==
  /\ pc = "loop"
  /\ UNCHANGED vars

\* The one-second sleep arm.  The sleep is created anew by each select!, so
\* the arm is taken only by a select! in which neither the child, nor the
\* signal, nor the keyboard poll (100 ms) completes for one second.
Tick ==
  /\ pc = "loop"
  /\ ui_state.elapsed < MaxTicks
  /\ ui_state' = [ui_state EXCEPT !.elapsed = ui_state.elapsed + 1]
  /\ UNCHANGED <<pc, result, raw_mode, volume_control, station_index, stream_url, child,
                 spawns, running, killed, player, sys_volume, faults, lock_io>>

\* An exit of a superseded process that the loop takes for the exit of its child.
ProcExit_ends_loop ==
  /\ pc \in {"loop", "ctrlc"}
  /\ \E i \in running :
       /\ pc = "loop" => i # child
       /\ running' = running \ {i}
  /\ IF pc = "loop"
     THEN Finish(TRUE)
     ELSE UNCHANGED <<pc, result, raw_mode, volume_control, station_index, stream_url,
                      child, player, lock_io, ui_state>>
  /\ UNCHANGED <<spawns, killed, sys_volume, faults>>

\* Environment: a process the loop is not waiting on in select! exits (a
\* superseded process; the current one while child.kill().await waits).
ProcExit ==
  /\ pc \in {"loop", "ctrlc"}
  /\ \E i \in running :
       /\ pc = "loop" => i # child
       /\ running' = running \ {i}
  /\ UNCHANGED <<pc, result, raw_mode, volume_control, station_index, stream_url, child,
                 spawns, killed, player, sys_volume, faults, lock_io, ui_state>>

Next ==
  \/ Detect
  \/ Start
  \/ VolumeUp
  \/ VolumeDown
  \/ PrevStation
  \/ NextStation
  \/ MuteF8
  \/ MuteF12
  \/ Quit
  \/ Interrupt
  \/ InterruptDone
  \/ ChildWait
  \/ KeyPoll
  \/ Tick
  \/ ProcExit

Spec == Init /\ [][Next]_vars

\* The program with the scheduling tokio gives it: child.kill().await returns
\* once the child has exited.  Nothing makes a player process exit, and
\* nothing keeps the keyboard poll from completing before the sleep does.
SpecLive == Init /\ [][Next]_vars /\ WF_vars(InterruptDone)

\* The run in which the user presses no key but volume-up (and quit).
NextVolumeUp ==
  \/ Detect
  \/ Start
  \/ VolumeUp
  \/ Quit
  \/ ChildWait
  \/ KeyPoll
  \/ Tick
  \/ ProcExit

SpecVolumeUp == Init /\ [][NextVolumeUp]_vars

----------------------------------------------------------------------------
(* What the claims observe *)

Looping == pc = "loop"
Muted == volume_control.muted
Volume == volume_control.volume

\* The volume the current player process plays at while it is not paused:
\* its own volume, or for afplay (launched without one) the system volume.
ActualVolume ==
  IF volume_control.player_type = "Afplay" THEN sys_volume ELSE player.vol

\* The effective output volume of the current player process.
EffectiveVolume == IF player.paused THEN 0 ELSE ActualVolume

\* A step of one of the key handlers the claims call controller operations.
VolumeStepTaken == VolumeUp \/ VolumeDown
StationStepTaken == PrevStation \/ NextStation
MuteStepTaken == MuteF8 \/ MuteF12
ControllerStep == VolumeStepTaken \/ StationStepTaken \/ MuteStepTaken

\* The processes spawned earlier that the child handle no longer owns.
OldProcs == {i \in 1..spawns : i # child}

\* n applications of the next-station index computation.
RECURSIVE NextTimes(_, _)
NextTimes(n, i) == IF n = 0 THEN i ELSE NextTimes(n - 1, next_index(i))

----------------------------------------------------------------------------
(* Claims *)

\* C1: the stored volume stays within 0..100 in every reachable state; while
\* unmuted, a volume-up key sets it to min(v+5, 100) and a volume-down key to
\* max(v-5, 0).
C1_VolumeSaturates ==
  /\ [](Volume \in 0..100)
  /\ [][(VolumeUp /\ ~Muted /\ pc' = "loop")
          => volume_control'.volume = (IF Volume + 5 > 100 THEN 100 ELSE Volume + 5)]_vars
  /\ [][(VolumeDown /\ ~Muted /\ pc' = "loop")
          => volume_control'.volume = (IF Volume - 5 < 0 THEN 0 ELSE Volume - 5)]_vars

\* C1 witness: the loop is waiting, unmuted, with the volume at its upper bound
\* and the snapshot showing it.
C1_Witness == Looping /\ ~Muted /\ Volume = 100 /\ ui_state.volume = 100

\* C2: from an unmuted state with volume v, a mute key stores v and mutes; from
\* a muted state a mute key restores the stored volume and unmutes; so two
\* consecutive mute toggles give back v with muted false.
C2_MuteRoundTrip ==
  /\ [][(MuteStepTaken /\ ~Muted /\ pc' = "loop")
          => /\ volume_control'.muted
             /\ volume_control'.volume_before_mute = Volume]_vars
  /\ [][(MuteStepTaken /\ Muted /\ pc' = "loop")
          => /\ ~volume_control'.muted
             /\ volume_control'.volume = volume_control.volume_before_mute]_vars
  /\ []((Looping /\ ~Muted)
          => LET vc2 == toggle_mute(toggle_mute(volume_control))
             IN vc2.volume = Volume /\ ~vc2.muted)

\* C2 witness: unmuted again at 75 after having been muted at 75.
C2_Witness ==
  Looping /\ ~Muted /\ Volume = 75 /\ volume_control.volume_before_mute = 75

\* C3: while muted, a volume-up or volume-down key leaves the stored volume,
\* the muted flag and volume_before_mute unchanged.
C3_MutedVolumeKeyFrame ==
  [][(VolumeStepTaken /\ Muted /\ pc' = "loop")
       => /\ volume_control'.volume = volume_control.volume
          /\ volume_control'.muted = volume_control.muted
          /\ volume_control'.volume_before_mute = volume_control.volume_before_mute]_vars

\* C3 witness: mpv, muted at 70 by pause, then told to set volume 0 by a volume
\* key handled while muted.
C3_Witness ==
  /\ Looping /\ Muted /\ volume_control.player_type = "Mpv"
  /\ volume_control.volume_before_mute = 70
  /\ player.paused /\ player.vol = 0 /\ spawns = 1

\* C4: the station index is always a position of the station list; previous
\* from 0 yields the last index, next from the last index yields 0; N next
\* keys visit every station once and return to the start.
C4_StationWraps ==
  /\ [](station_index \in 0..(NumStations - 1))
  /\ [][(PrevStation /\ pc' = "loop")
          => station_index' = (IF station_index = 0 THEN NumStations - 1
                                                    ELSE station_index - 1)]_vars
  /\ [][(NextStation /\ pc' = "loop")
          => station_index' = (IF station_index = NumStations - 1 THEN 0
                                                                  ELSE station_index + 1)]_vars
  /\ [](/\ {NextTimes(k, station_index) : k \in 0..(NumStations - 1)} = 0..(NumStations - 1)
        /\ NextTimes(NumStations, station_index) = station_index)

\* C4 witness: the loop waits on the last station, the player playing its url.
C4_Witness ==
  Looping /\ station_index = NumStations - 1 /\ player.url = station_index /\ spawns = 2

\* C5: whenever the session is muted and the loop is waiting, the current
\* player process has effective output volume 0.
C5_MutedIsSilent == (Looping /\ Muted) => EffectiveVolume = 0

\* C6: after every completed controller operation, if the session is unmuted
\* the current player is not paused and plays at the stored volume.
C6_UnmutedInSync ==
  [][(ControllerStep /\ pc' = "loop" /\ ~volume_control'.muted)
       => ~player'.paused /\ ActualVolume' = volume_control'.volume]_vars

\* C7: a station switch handled while muted leaves the session muted and the
\* new current process at effective output volume 0.
C7_SwitchKeepsMute ==
  [][(StationStepTaken /\ Muted /\ pc' = "loop")
       => volume_control'.muted /\ EffectiveVolume' = 0]_vars

\* C7 witness: afplay, muted, on the other station, the replacement suspended.
C7_Witness ==
  /\ Looping /\ Muted /\ volume_control.player_type = "Afplay"
  /\ station_index = 1 /\ child = 2 /\ player.paused /\ player.url = 1

\* C8: a volume key that kills and respawns (with a spawn that succeeds) leaves
\* a live current process launched at the stored volume after the adjustment.
C8_RespawnAtNewVolume ==
  [][(VolumeStepTaken /\ spawns' # spawns)
       => /\ pc' = "loop"
          /\ child' = spawns' /\ child' \in running' /\ child' \notin killed'
          /\ player'.vol = volume_control'.volume
          /\ ~player'.paused]_vars

\* C8 witness: ffplay, first replacement, launched at 75 after a volume-up.
C8_Witness ==
  /\ Looping /\ ~Muted /\ volume_control.player_type = "Ffplay"
  /\ spawns = 2 /\ child = 2 /\ Volume = 75 /\ player.vol = 75

\* C9: on ffplay, from the default volume 70 unmuted and pressing only
\* volume-up, every press makes exactly one respawn and the k-th replacement
\* is launched at min(70+5k, 100); three presses end at 85.
C9_FfplayVolumeUp ==
  /\ [][(VolumeUp /\ volume_control.player_type = "Ffplay" /\ pc' = "loop")
          => spawns' = spawns + 1 /\ child' = spawns']_vars
  /\ []((Looping /\ volume_control.player_type = "Ffplay")
          => /\ Volume = (IF 70 + 5 * (spawns - 1) > 100 THEN 100 ELSE 70 + 5 * (spawns - 1))
             /\ player.vol = Volume
             /\ (spawns = 4 => Volume = 85))

\* C9 witness: ffplay after three volume-up keys.
C9_Witness ==
  /\ Looping /\ volume_control.player_type = "Ffplay"
  /\ spawns = 4 /\ Volume = 85 /\ player.vol = 85

\* C10: a kill-and-respawn makes the replacement the current process whether or
\* not the old one exited within the wait; afterwards no kill is sent to a
\* superseded process and its exit is not seen by the controller.
C10_OldHandleDropped ==
  /\ [][(pc = "loop" /\ spawns' = spawns + 1)
          => /\ child' = spawns' /\ child' \in running'
             /\ (killed' \ killed) \subseteq {child}]_vars
  /\ [][(killed' \ killed) \cap OldProcs = {}]_vars
  /\ [][(pc = "loop" /\ running' # running /\ (running \ running') \subseteq OldProcs
            /\ spawns' = spawns)
          => UNCHANGED <<pc, result, child, volume_control, player>>]_vars

\* C10 witness: the killed old process still runs while its replacement is the
\* current process.
C10_Witness ==
  /\ Looping /\ child \in running /\ child \notin killed
  /\ \E i \in OldProcs : i \in running /\ i \in killed

\* The volume the next unmute gives: that of toggle_mute when muted, that of
\* a mute followed by an unmute otherwise.
RestoredVolume ==
  IF Muted THEN toggle_mute(volume_control).volume
           ELSE toggle_mute(toggle_mute(volume_control)).volume

Failed == result \in {"no_player", "spawn_err", "io_err"}

\* C11: a quit key ends the loop in the step that handles it, after one wait
\* that is bounded, whether or not the player process has exited, and spawns
\* nothing.
C11_QuitStops ==
  [][Quit => /\ pc' = "done"
             /\ spawns' = spawns
             /\ killed' = killed \cup {child}
             /\ running' \in {running, running \ {child}}]_vars

\* C11 witness: main() has returned Ok with the terminal restored while the
\* last player process, killed, still runs.
C11_Witness ==
  /\ pc = "done" /\ result = "ok" /\ ~raw_mode
  /\ spawns \in running /\ spawns \in killed

\* C12: once the interrupt signal is being handled the loop exits, even if the
\* player process never exits after the kill.
C12_InterruptStops == (pc = "ctrlc") ~> (pc = "done")

\* C13: the run ends with a failure result when the wait on the current child
\* returns an error, and with Ok on a quit key or when the player exits (here
\* required only of the runs that restored the terminal).
C13_ExitResults ==
  /\ [][(ChildWait /\ child \in running') => Failed']_vars
  /\ [][((Quit \/ (ChildWait /\ child \notin running')) /\ ~raw_mode')
          => result' = "ok"]_vars

\* C14: no player is detected exactly when every probe fails; the run then
\* ends with a failure, never spawns a process, never enables raw mode and
\* never enters the loop.
C14_NoBackendNoSession ==
  /\ [](\A f, m, a \in BOOLEAN : (DetectPlayer(f, m, a) = NoPlayer) <=> (~f /\ ~m /\ ~a))
  /\ [][(pc = "detect" /\ pc' = "done") => result' = "no_player"]_vars
  /\ []((result = "no_player")
          => pc = "done" /\ spawns = 0 /\ running = {} /\ killed = {} /\ ~raw_mode)
  /\ [][result # "no_player"]_vars

\* C14 witness: main() has returned "Player not found".
C14_Witness == pc = "done" /\ result = "no_player" /\ spawns = 0

\* C15: a failed spawn, the first or that of a respawn, ends the run with a
\* failure result, and no step of the program follows the end of the run.
C15_SpawnFailureEnds ==
  /\ [][((MuteF12 \/ StationStepTaken) /\ spawns' = spawns)
          => pc' = "done" /\ result' = "spawn_err"]_vars
  /\ [][((VolumeStepTaken \/ MuteF8) /\ volume_control.player_type = "Ffplay"
            /\ spawns' = spawns)
          => pc' = "done" /\ result' = "spawn_err"]_vars
  /\ [][(pc = "start" /\ result' = "spawn_err")
          => pc' = "done" /\ spawns' = 0 /\ running' = {}]_vars
  /\ []((result = "spawn_err") => pc = "done")
  /\ [][pc # "done"]_vars

\* C15 witness: main() has returned the error of a respawn's spawn.
C15_Witness == pc = "done" /\ result = "spawn_err" /\ spawns >= 1 /\ 1 \in killed

\* C16: on mpv, a volume key whose handling met a failure (the connect to the
\* IPC socket among them) and that returns to the loop has respawned the
\* player at the new volume.
C16_ConnectFailureRespawns ==
  [][(VolumeStepTaken /\ volume_control.player_type = "Mpv"
        /\ faults' # faults /\ pc' = "loop")
       => spawns' = spawns + 1 /\ player'.vol = volume_control'.volume]_vars

\* C17: a mute key on afplay (suspend signal), or on mpv when no call fails
\* (IPC pause), returns to the loop having neither killed nor replaced the
\* current player process.
C17_PauseInPlace ==
  [][(MuteStepTaken /\ pc' = "loop"
        /\ (\/ volume_control.player_type = "Afplay"
            \/ (volume_control.player_type = "Mpv" /\ faults' = faults)))
       => child' = child /\ spawns' = spawns /\ killed' = killed]_vars

\* C18: while muted a volume key that returns to the loop has changed
\* nothing: not the session state, not the player process (no kill, no
\* replacement), not the volume the player or the system was told to use.
C18_MutedVolumeKeyNoop ==
  [][(VolumeStepTaken /\ Muted /\ pc' = "loop")
       => UNCHANGED <<volume_control, child, spawns, killed, running, player,
                      sys_volume>>]_vars

\* C19 as stated: in every state of the loop the stored volume is the volume
\* the next unmute gives.
C19_VolumeIsRestoreLevel == Looping => Volume = RestoredVolume

\* C19 amended: while unmuted the stored volume is the level the next unmute
\* gives; while muted the stored volume is 0 and volume_before_mute, which no
\* step changes while muted, holds the level the unmute restores.
C19_SnapshotIsRestoreLevel ==
  /\ []((Looping /\ ~Muted) => Volume = RestoredVolume)
  /\ []((Looping /\ Muted)
          => Volume = 0 /\ volume_control.volume_before_mute \in 0..100)
  /\ [][(Muted /\ volume_control'.muted /\ pc' = "loop")
          => volume_control'.volume_before_mute = volume_control.volume_before_mute]_vars
  /\ [][(Muted /\ ~volume_control'.muted /\ pc' = "loop")
          => volume_control'.volume = volume_control.volume_before_mute]_vars

\* C19 witness: muted, the stored volume 0, the level to restore 75.
C19_Witness ==
  Looping /\ Muted /\ Volume = 0 /\ volume_control.volume_before_mute = 75

\* C20: whichever backend was detected, for every station url and volume in
\* 0..100 the launch command encodes that url and that volume.
C20_LaunchEncodesUrlAndVolume ==
  (pc \in {"start", "loop"})
    => \A url \in 0..(NumStations - 1), v \in 0..100 :
         LET args == build_player_args(volume_control.player_type, url, v)
         IN args.url = url /\ args.vol = v

\* C21: in every reachable state at most one of the processes the session
\* started is still running.
C21_OneRunningProcess == Cardinality(running) <= 1

\* C22: the loop is ended by a process exit only when the process is the one
\* the child handle owns; the exit of a killed, superseded process, inside the
\* bounded wait of its kill-and-respawn or later, leaves the loop running.
C22_OnlyCurrentExitEndsLoop ==
  /\ [][(pc = "loop" /\ pc' = "done" /\ running' # running /\ killed' = killed)
          => running \ running' = {child}]_vars
  /\ [][(pc = "loop" /\ running \ running' # {} /\ (running \ running') \subseteq OldProcs)
          => pc' = "loop" /\ child' = child /\ result' = "none"]_vars
  /\ [][(pc = "loop" /\ spawns' = spawns + 1 /\ child \notin running')
          => pc' = "loop" /\ child' = spawns' /\ child' \in running']_vars

\* C22 witness: ffplay, the first process outlived the bounded wait of its
\* replacement and has exited since; the loop still waits, on the replacement.
C22_Witness ==
  /\ Looping /\ volume_control.player_type = "Ffplay"
  /\ spawns = 2 /\ child = 2 /\ faults = 1 /\ running = {2} /\ killed = {1}

\* C23: no key handler begins process I/O (a control-channel write, a signal
\* to the player, a command) while it holds the volume_control lock.
C23_NoIoUnderLock == lock_io = "none"

\* C24: whenever the loop waits, the snapshot's volume, muted flag and station
\* index are those of the VolumeControl and of station_index.
C24_SnapshotInSync ==
  Looping => /\ ui_state.volume = Volume
             /\ ui_state.muted = Muted
             /\ ui_state.station_index = station_index

\* C24 witness: the loop waits, muted, on the other station, and the snapshot
\* shows all of it.
C24_Witness ==
  /\ Looping /\ Muted /\ station_index = 1
  /\ ui_state.muted /\ ui_state.volume = 0 /\ ui_state.station_index = 1

\* C25: from a state where the loop waits and no tick was handled yet, a tick
\* is eventually handled unless the loop is left.
C25_TickHandled ==
  (Looping /\ ui_state.elapsed = 0) ~> (ui_state.elapsed > 0 \/ ~Looping)

\* C26: on mpv, every kill-and-respawn records an IPC socket path that differs
\* from the one of the process it replaces.
C26_FreshSocket ==
  [][(pc = "loop" /\ pc' = "loop" /\ spawns' = spawns + 1
        /\ volume_control.player_type = "Mpv")
       => volume_control'.mpv_socket # volume_control.mpv_socket]_vars

\* C27: volume_before_mute is written only by the step that mutes, which
\* stores the volume of that moment; while muted, volume keys, station keys
\* and ticks keep the session muted; and the mute key that follows restores
\* exactly the stored value with muted false.
C27_MuteSurvivesEvents ==
  /\ [][(pc = "loop" /\ pc' = "loop"
            /\ volume_control'.volume_before_mute # volume_control.volume_before_mute)
          => /\ MuteStepTaken /\ ~Muted /\ volume_control'.muted
             /\ volume_control'.volume_before_mute = Volume]_vars
  /\ [][((VolumeStepTaken \/ StationStepTaken \/ Tick) /\ Muted /\ pc' = "loop")
          => /\ volume_control'.muted
             /\ volume_control'.volume_before_mute = volume_control.volume_before_mute]_vars
  /\ [][(MuteStepTaken /\ Muted /\ pc' = "loop")
          => volume_control' = [volume_control EXCEPT
                                  !.volume = volume_control.volume_before_mute,
                                  !.muted = FALSE]]_vars

\* C27 witness: muted at 75, then switched to the other station.
C27_Witness ==
  /\ Looping /\ Muted /\ volume_control.volume_before_mute = 75
  /\ station_index = 1 /\ player.url = 1 /\ ui_state.elapsed = 1

\* C28: a station key that returns to the loop has replaced the player exactly
\* once by a process launched with the new station's url at the stored volume;
\* and whenever the loop waits the current player plays the url of
\* station_index.
C28_StationRespawn ==
  /\ [][(StationStepTaken /\ pc' = "loop")
          => /\ spawns' = spawns + 1 /\ child' = spawns' /\ child' \in running'
             /\ player'.url = station_index'
             /\ player'.vol = volume_control'.volume]_vars
  /\ [](Looping => player.url = station_index /\ stream_url = station_index)

\* C29: in every reachable state a muted session has stored volume 0, and
\* volume_before_mute is the volume the session had in the state it was muted
\* from.
C29_MutedMeansZero ==
  /\ [](Muted => Volume = 0 /\ Looping)
  /\ [][(~Muted /\ volume_control'.muted)
          => volume_control'.volume_before_mute = Volume]_vars
  /\ [][(Muted /\ volume_control'.muted)
          => volume_control'.volume_before_mute = volume_control.volume_before_mute]_vars

\* C29 witness: muted from volume 65.
C29_Witness ==
  Muted /\ Volume = 0 /\ volume_control.volume_before_mute = 65 /\ ui_state.volume = 0

\* C30: when main() has returned Ok or the error of a spawn, raw mode is off.
C30_RawModeRestored == (pc = "done" /\ result \in {"ok", "spawn_err"}) => ~raw_mode

\* The stored session state: volume, muted, volume_before_mute, station index.
SessionState ==
  <<volume_control.volume, volume_control.muted, volume_control.volume_before_mute,
    station_index>>

\* C31: the session state the loop starts with, and the session state after
\* each event the loop handles and survives, are functions of the session
\* state before and of the event alone, the same for every backend and every
\* outcome of the control attempts; so equal key sequences give equal session
\* states.
C31_SessionStateIsDetermined ==
  /\ [][(pc = "start" /\ pc' = "loop") => SessionState' = <<70, FALSE, 70, 0>>]_vars
  /\ [][(VolumeUp /\ pc' = "loop")
          => SessionState' =
               <<IF Muted THEN Volume ELSE IF Volume + 5 > 100 THEN 100 ELSE Volume + 5,
                 Muted, volume_control.volume_before_mute, station_index>>]_vars
  /\ [][(VolumeDown /\ pc' = "loop")
          => SessionState' =
               <<IF Muted THEN Volume ELSE IF Volume < 5 THEN 0 ELSE Volume - 5,
                 Muted, volume_control.volume_before_mute, station_index>>]_vars
  /\ [][(MuteStepTaken /\ pc' = "loop")
          => SessionState' =
               IF Muted
               THEN <<volume_control.volume_before_mute, FALSE,
                      volume_control.volume_before_mute, station_index>>
               ELSE <<0, TRUE, Volume, station_index>>]_vars
  /\ [][(PrevStation /\ pc' = "loop")
          => SessionState' =
               <<Volume, Muted, volume_control.volume_before_mute,
                 IF station_index = 0 THEN NumStations - 1 ELSE station_index - 1>>]_vars
  /\ [][(NextStation /\ pc' = "loop")
          => SessionState' =
               <<Volume, Muted, volume_control.volume_before_mute,
                 IF station_index = NumStations - 1 THEN 0 ELSE station_index + 1>>]_vars
  /\ [][(pc = "loop" /\ pc' = "loop" /\ ~ControllerStep)
          => SessionState' = SessionState]_vars

\* C31 witness: mpv, a volume-up whose control attempt failed (the player is
\* still at 70, not replaced) and after which the stored volume is 75 all the same.
C31_Witness ==
  /\ Looping /\ volume_control.player_type = "Mpv"
  /\ SessionState = <<75, FALSE, 70, 0>>
  /\ spawns = 1 /\ faults = 1 /\ player.vol = 70

====
